---- MODULE Spec2Model ----
(***************************************************************************)
(* A model of the DeedSure web client: the report view's status polling    *)
(* (ReportView.tsx), the session store (AuthContext) with the API client's *)
(* request interceptor (api.ts), and the upload view (DocumentUpload.tsx). *)
(* Each view is a state machine of its own; SpecReport, SpecAuth and       *)
(* SpecUpload run one of them and leave the other two at rest.             *)
(***************************************************************************)
EXTENDS Integers, Sequences, FiniteSets, Bags, TLC

VARIABLES
    \* ---- ReportView.tsx ----
    mounted,            \* the view instance is mounted
    id,                 \* useParams().id, the report the route names
    report,             \* useState<Report | null>
    isLoading,          \* useState(true)
    error,              \* useState<string | null>
    pollingInterval,    \* useState<number | null>
    timers,             \* the window's active setInterval timers
    nextTimer,          \* the id window.setInterval returns next
    fetches,            \* GET /reports/{id} calls in flight (a bag)
    srvStatus,          \* the remote service's status of each report
    \* observers of the report view's fetches
    terminalSeen,       \* per report id: since the view entered it, a fetch returned completed or failed
    procAge,            \* per report id: time since the issue of a fetch that returned processing
    issued,             \* the fetch the last step issued, if it issued one
    \* ---- AuthContext (AuthProvider), api.ts, Register ----
    impl,               \* which of the repository's two AuthProviders is running
    token,              \* localStorage['token']
    defaultAuth,        \* api.defaults.headers.common['Authorization']
    user,               \* useState<User | null>
    authIsLoading,      \* AuthProvider's useState(true)
    route,              \* the router's location
    checkPc,            \* where checkAuth is
    ops,                \* the Login page's login call and the Register page's register call
    regBusy,            \* the Register page's isLoading
    \* observers of the session store's requests
    sent,               \* the API request the last step issued, if it issued one
    lastAuth,           \* the last login processed or logout called
    prevFailure,        \* how the last register call before the current one failed, if it did
    checkOutcome,       \* how checkAuth ended: "no token", "accepted" or "rejected"
    \* ---- DocumentUpload.tsx ----
    files,              \* useState<UploadedFile[]>: the upload entries
    isUploading,        \* useState(false)
    upPc,               \* where handleUpload is: "idle" or "awaiting" its api.post
    acceptedFiles,      \* handleUpload's argument
    upI,                \* handleUpload's loop index i (0-based, as in the code)
    upBase,             \* files.length in handleUpload's closure
    upRoute,            \* the location, as far as the upload view changes it
    \* observers of the upload view
    outcome,            \* per file: how its /documents/upload call resolved
    upIssued,           \* the file whose upload call the last step issued, if any
    \* ---- ReportCreate (part_002), UserProfile.tsx ----
    selectedDocuments,  \* useState<string[]>([])
    isGenerating,       \* useState(false)
    genPc,              \* where handleGenerateReport is: "idle" or "awaiting" its api.post
    genRoute,           \* the location, as far as ReportCreate changes it
    genToast,           \* the toast the last step of ReportCreate raised, if any
    profIsLoading,      \* UserProfile's useState(false)
    profPc,             \* where UserProfile.onSubmit is: "idle" or "awaiting" its api.put
    profRoute,          \* the location, as far as UserProfile changes it
    profToast,          \* the toast the last step of UserProfile raised, if any
    \* observers of the two forms
    genSent,            \* the document_ids of the POST /reports/generate the last step issued, if any
    formEvent           \* the outcome of the request that returned in the last step, if one did

reportVars == <<mounted, id, report, isLoading, error, pollingInterval, timers,
                nextTimer, fetches, srvStatus, terminalSeen, procAge, issued>>

authVars == <<impl, token, defaultAuth, user, authIsLoading, route, checkPc,
              ops, regBusy, sent, lastAuth, prevFailure, checkOutcome>>

uploadVars == <<files, isUploading, upPc, acceptedFiles, upI, upBase, upRoute,
                outcome, upIssued>>

formVars == <<selectedDocuments, isGenerating, genPc, genRoute, genToast,
              profIsLoading, profPc, profRoute, profToast, genSent, formEvent>>

vars == <<reportVars, authVars, uploadVars, formVars>>

-----------------------------------------------------------------------------
(* Bounds *)
MaxTimers == 2      \* timers one view instance may create
MaxInFlight == 2    \* report fetches in flight at once
MaxDrop == 2        \* files accepted by one drop

(* Program constants *)
PollInterval == 5   \* setInterval(..., 5000), in seconds
NoTimer == 0        \* pollingInterval = null
maxRetries == 3     \* register's const maxRetries = 3
RetryDelay == 2     \* setTimeout(resolve, 2000) before a retry, in seconds
PropagateDelay == 2 \* setTimeout(resolve, 2000) after login, in seconds

ReportIds == {"R1", "R2"}
NoReport == [id |-> "none", status |-> "none"]
NoError == "none"

Min(a, b) == IF a < b THEN a ELSE b

-----------------------------------------------------------------------------
(* ReportView.tsx *)

\* The remote service's report lifecycle: processing, then completed for good.
ServerStatuses == {"processing", "completed"}

\* window.clearInterval(t): the timer with that id, if still active, is removed.
clearInterval(ts, t) == {x \in ts : x.tid # t}

\* A fetchReport that never starts the repeating fetch.
setIntervalNever(ts, t, rid, cpi) == ts

\* window.setInterval(() => fetchReport(), 5000) inside a fetchReport whose
\* closure holds (rid, cpi): the callback calls that same fetchReport.
setInterval(ts, t, rid, cpi) ==
    ts \cup {[tid |-> t, id |-> rid, cpi |-> cpi, due |-> PollInterval]}

\* api.get(`/reports/${id}`) called by a fetchReport whose closure holds (rid, cpi).
\* age: the time since the call was issued, counted up to PollInterval.
IssueFetch(fs, rid, cpi) ==
    fs (+) SetToBag({[id |-> rid, cpi |-> cpi, age |-> 0]})

\* The observers' view of a fetch for rid being issued.
\* src: "effect" (the effect's own call) or "timer" (an interval callback);
\* gap: the time since the issue of the last fetch for rid that returned
\* processing, PollInterval or more when there is none to wait for.
ObserveIssue(rid, src, pa) ==
    /\ issued' = [id |-> rid, src |-> src, gap |-> pa[rid]]
    /\ procAge' = [pa EXCEPT ![rid] = PollInterval]

NoIssue == [id |-> "none", src |-> "none", gap |-> PollInterval]

ObserveNoIssue(pa) ==
    /\ issued' = NoIssue
    /\ procAge' = pa

\* A response to fetch f arrives: the rest of fetchReport (try / catch / finally)
\* runs with the closure's pollingInterval f.cpi, then React re-renders and, if
\* a dependency of the effect changed, runs the previous effect's cleanup and
\* the effect again (which calls fetchReport at once).
FetchReportReturns(f, ok) ==
    /\ BagIn(f, fetches)
    /\ LET s == srvStatus[f.id]
           proc == ok /\ s = "processing"
           mkTimer == proc /\ f.cpi = NoTimer
           stop == ~proc /\ f.cpi # NoTimer
           timers1 == IF mkTimer THEN setInterval(timers, nextTimer, f.id, f.cpi)
                      ELSE IF stop THEN clearInterval(timers, f.cpi)
                      ELSE timers
           \* setPollingInterval on an unmounted component changes nothing
           pi1 == IF ~mounted THEN pollingInterval
                  ELSE IF mkTimer THEN nextTimer
                  ELSE IF stop THEN NoTimer
                  ELSE pollingInterval
           rerun == mounted /\ pi1 # pollingInterval
           timers2 == IF rerun THEN clearInterval(timers1, pollingInterval) ELSE timers1
           rest == fetches (-) SetToBag({f})
           ts1 == [terminalSeen EXCEPT ![f.id] = @ \/ ~proc]
           pa1 == [procAge EXCEPT ![f.id] = IF proc THEN Min(@, f.age) ELSE @]
       IN  /\ mkTimer => nextTimer <= MaxTimers
           /\ timers' = timers2
           /\ nextTimer' = IF mkTimer THEN nextTimer + 1 ELSE nextTimer
           /\ pollingInterval' = pi1
           /\ fetches' = IF rerun THEN IssueFetch(rest, id, pi1) ELSE rest
           /\ report' = IF mounted /\ ok THEN [id |-> f.id, status |-> s] ELSE report
           /\ error' = IF mounted /\ ~ok THEN "Failed to load report" ELSE error
           /\ isLoading' = IF mounted THEN FALSE ELSE isLoading
           /\ terminalSeen' = ts1
           /\ IF rerun THEN ObserveIssue(id, "effect", pa1) ELSE ObserveNoIssue(pa1)
           /\ UNCHANGED <<mounted, id, srvStatus>>

\* A due interval timer fires: its callback calls the fetchReport that created it.
TimerFires(t) ==
    /\ t \in timers
    /\ t.due = 0
    /\ BagCardinality(fetches) < MaxInFlight
    /\ timers' = (timers \ {t}) \cup {[t EXCEPT !.due = PollInterval]}
    /\ fetches' = IssueFetch(fetches, t.id, t.cpi)
    /\ ObserveIssue(t.id, "timer", procAge)
    /\ UNCHANGED <<mounted, id, report, isLoading, error, pollingInterval,
                   nextTimer, srvStatus, terminalSeen>>

\* The route's id changes while the same view instance stays mounted: the
\* effect's dependency changed, so its cleanup runs and the effect runs again.
ChangeId(rid) ==
    /\ mounted
    /\ rid # id
    /\ BagCardinality(fetches) < MaxInFlight
    /\ id' = rid
    /\ timers' = clearInterval(timers, pollingInterval)
    /\ fetches' = IssueFetch(fetches, rid, pollingInterval)
    \* the observers start afresh with the view's entering rid
    /\ terminalSeen' = [r \in ReportIds |-> FALSE]
    /\ ObserveIssue(rid, "effect", [r \in ReportIds |-> PollInterval])
    /\ UNCHANGED <<mounted, report, isLoading, error, pollingInterval,
                   nextTimer, srvStatus>>

\* The view is unmounted: the current effect's cleanup runs.
Unmount ==
    /\ mounted
    /\ mounted' = FALSE
    /\ timers' = clearInterval(timers, pollingInterval)
    /\ ObserveNoIssue(procAge)
    /\ UNCHANGED <<id, report, isLoading, error, pollingInterval, nextTimer,
                   fetches, srvStatus, terminalSeen>>

\* The remote service finishes a report.
ServerCompletes(rid) ==
    /\ srvStatus[rid] = "processing"
    /\ srvStatus' = [srvStatus EXCEPT ![rid] = "completed"]
    /\ ObserveNoIssue(procAge)
    /\ UNCHANGED <<mounted, id, report, isLoading, error, pollingInterval,
                   timers, nextTimer, fetches, terminalSeen>>

Older(f) == [f EXCEPT !.age = Min(@ + 1, PollInterval)]

\* Every call in flight is one second older.
AgeFetches(fs) ==
    LET olds == {Older(f) : f \in BagToSet(fs)}
        count(o) == LET from == {f \in BagToSet(fs) : Older(f) = o}
                        young == [o EXCEPT !.age = o.age - 1]
                    IN  (IF o \in from THEN fs[o] ELSE 0)
                        + (IF young \in from /\ young # o THEN fs[young] ELSE 0)
    IN  [o \in olds |-> count(o)]

\* One second passes. A timer may fire late but never early.
Tick ==
    /\ \/ \E t \in timers : t.due > 0
       \/ \E f \in BagToSet(fetches) : f.age < PollInterval
       \/ \E r \in ReportIds : procAge[r] < PollInterval
    /\ timers' = {[t EXCEPT !.due = IF @ > 0 THEN @ - 1 ELSE 0] : t \in timers}
    /\ fetches' = AgeFetches(fetches)
    /\ ObserveNoIssue([r \in ReportIds |-> Min(procAge[r] + 1, PollInterval)])
    /\ UNCHANGED <<mounted, id, report, isLoading, error, pollingInterval,
                   nextTimer, srvStatus, terminalSeen>>

\* A render that shows a report whenever it holds one.
ReportViewRendersReportFirst ==
    IF isLoading THEN "loading"
    ELSE IF report # NoReport THEN "report"
    ELSE "error"

\* What ReportView renders.
ReportViewRenders ==
    IF isLoading THEN "loading"
    ELSE IF error # NoError \/ report = NoReport THEN "error"
    ELSE "report"

\* The view has just been mounted on a report: state as constructed by the
\* useState calls, and the effect's first run has called fetchReport.
InitReport ==
    /\ mounted = TRUE
    /\ id \in ReportIds
    /\ report = NoReport
    /\ isLoading = TRUE
    /\ error = NoError
    /\ pollingInterval = NoTimer
    /\ timers = {}
    /\ nextTimer = 1
    /\ fetches = IssueFetch(EmptyBag, id, NoTimer)
    /\ srvStatus \in [ReportIds -> ServerStatuses]
    /\ terminalSeen = [r \in ReportIds |-> FALSE]
    /\ procAge = [r \in ReportIds |-> PollInterval]
    /\ issued = [id |-> id, src |-> "effect", gap |-> PollInterval]

NextReport ==
    \/ \E f \in BagToSet(fetches) : \E ok \in BOOLEAN : FetchReportReturns(f, ok) /\ UNCHANGED <<authVars, uploadVars, formVars>>
    \/ \E t \in timers : TimerFires(t) /\ UNCHANGED <<authVars, uploadVars, formVars>>
    \/ \E rid \in ReportIds : ChangeId(rid) /\ UNCHANGED <<authVars, uploadVars, formVars>>
    \/ Unmount /\ UNCHANGED <<authVars, uploadVars, formVars>>
    \/ \E rid \in ReportIds : ServerCompletes(rid) /\ UNCHANGED <<authVars, uploadVars, formVars>>
    \/ Tick /\ UNCHANGED <<authVars, uploadVars, formVars>>


-----------------------------------------------------------------------------
(* api.ts, AuthContext.tsx and the AuthProvider and Register of part_000 *)

Impls == {"AuthContext", "part_000"}
Tokens == {"T1", "T2"}
NoToken == "none"
Accounts == {"a@b.com", "c@d.com"}
NoUser == "none"
None == "none"

DashRoutes == {"/"}
AuthRoutes == {"/login", "/register"}
Routes == DashRoutes \cup AuthRoutes

\* An API client without the interceptor: only the default header is sent.
AuthorizationDefaultOnly(tok, dflt) == dflt

\* The request interceptor of api.ts: the stored token, when there is one,
\* overrides the instance's default Authorization header.
Authorization(tok, dflt) == IF tok # NoToken THEN tok ELSE dflt

NoSent == [path |-> None, auth |-> NoToken]
Request(path, tok, dflt) == [path |-> path, auth |-> Authorization(tok, dflt)]

NoAuthEvent == [kind |-> None, token |-> NoToken]

\* A gate that does not wait for the session restore.
DashboardLayoutNoPlaceholder(loading, isAuthenticated) ==
    IF ~isAuthenticated THEN "redirect" ELSE "content"

\* What DashboardLayout renders.
DashboardLayout(loading, isAuthenticated) ==
    IF loading THEN "placeholder"
    ELSE IF ~isAuthenticated THEN "redirect"
    ELSE "content"

\* What AuthLayout renders.
AuthLayout(loading, isAuthenticated) ==
    IF loading THEN "placeholder"
    ELSE IF isAuthenticated THEN "redirect"
    ELSE "content"

\* A context value computed from storage instead of the identity.
isAuthenticatedByToken == token # NoToken

\* The provider's value: isAuthenticated: !!user.
isAuthenticated == user # NoUser

\* The location after the layouts' <Navigate replace /> have been followed.
Gate(r, loading, u) ==
    IF r \in DashRoutes /\ DashboardLayout(loading, u # NoUser) = "redirect" THEN "/login"
    ELSE IF r \in AuthRoutes /\ AuthLayout(loading, u # NoUser) = "redirect" THEN "/"
    ELSE r

Shown(r, loading, u) ==
    \/ r \in DashRoutes /\ DashboardLayout(loading, u # NoUser) = "content"
    \/ r \in AuthRoutes /\ AuthLayout(loading, u # NoUser) = "content"

\* Errors: an AxiosError carries the response body's detail and message (none
\* for a network error or a timeout); new Error(m) carries neither.
Error(m) == [message |-> m, data_detail |-> None, data_message |-> None]
AxiosErrors ==
    { [message |-> "Request failed", data_detail |-> d, data_message |-> m] :
        <<d, m>> \in {<<None, None>>, <<"server detail", None>>, <<None, "server message">>} }

MsgInvalid == "Invalid email or password"
MsgAccountCreated == "Account created but login failed"
MsgRegFailed == "Registration failed"
MsgRegFailedLater == "Registration failed. Please try again later."

\* A catch block that rethrows the error it caught.
loginCatchRethrow(i, err) == Error(err.message)

\* login's catch block.
loginCatch(i, err) ==
    IF i = "part_000"
    THEN Error(IF err.data_message # None THEN err.data_message ELSE MsgInvalid)
    ELSE Error(MsgInvalid)

\* register's inner catch block (part_000), around login and createProfile.
registerInnerCatch(err) == Error(MsgAccountCreated)

\* register's outer catch block.
registerOuterCatch(i, err) ==
    IF i = "part_000"
    THEN Error(IF err.data_detail # None THEN err.data_detail
               ELSE IF err.data_message # None THEN err.data_message
               ELSE MsgRegFailedLater)
    ELSE Error(MsgRegFailed)

\* What register throws when its call of login threw err.
registerLoginFailed(i, err) ==
    IF i = "part_000"
    THEN registerOuterCatch(i, registerInnerCatch(err))
    ELSE registerOuterCatch(i, err)

\* The toast Register.onSubmit raises when registerUser settles.
onSubmitToast(result) ==
    IF result = "resolved" THEN "Registration successful" ELSE "Registration failed"

\* A createProfile that retries once.
mayRetryOnce(retryCount) == retryCount < 1

\* createProfile's catch block: retry while retryCount < maxRetries.
mayRetry(retryCount) == retryCount < maxRetries

\* A retry that waits a second less.
retryWaitShort == RetryDelay - 1

\* The wait before createProfile calls itself again.
retryWait == RetryDelay

IdleOp ==
    [kind |-> None, pc |-> "idle", acct |-> None, wait |-> 0, retryCount |-> 0,
     result |-> "pending", toast |-> None, pageAlive |-> FALSE,
     \* observers
     failedStage |-> None, profileCalls |-> 0, profileFails |-> 0,
     profileOk |-> FALSE, sinceProfile |-> RetryDelay, minGap |-> RetryDelay]

\* One call of the Login page and one of the Register page are followed at a
\* time: each page starts its next call when its last one has settled.
Slots == {"login", "register"}

Free(s) == ops[s].pc \in {"idle", "done"}

NoFailure == [stage |-> None, result |-> None]

\* After a step: follow the layouts' redirects; a Register page that is no
\* longer rendered is unmounted, and its state is gone.
Settle(r, loading, u, os, busy) ==
    LET r1 == Gate(r, loading, u)
        regShown == r1 = "/register" /\ Shown(r1, loading, u)
    IN  /\ route' = r1
        /\ ops' = [s \in Slots |->
                     [os[s] EXCEPT !.pageAlive = @ /\ regShown]]
        /\ regBusy' = (busy /\ regShown)

\* A register call settles with result res: Register.onSubmit's try / catch /
\* finally runs (part_000, lines 48 to 65).
Settled(op, res, stage) ==
    [op EXCEPT !.pc = "done", !.result = res, !.failedStage = stage,
               !.toast = IF op.kind = "register" THEN onSubmitToast(res) ELSE @]

\* An onSubmit without its finally block.
BusyAfterNoFinally(op) == regBusy

\* Register.onSubmit's finally: setIsLoading(false) on the rendered page.
BusyAfter(op) == IF op.kind = "register" /\ op.pageAlive THEN FALSE ELSE regBusy

\* A checkAuth that clears the loading flag before it awaits /users/me.
CheckAuthStartsClearsLoadingEarly ==
    /\ checkPc = "start"
    /\ IF token # NoToken
       THEN /\ checkPc' = "waiting"
            /\ sent' = Request("/users/me", token, defaultAuth)
            /\ authIsLoading' = FALSE
            /\ Settle(route, FALSE, user, ops, regBusy)
            /\ UNCHANGED checkOutcome
       ELSE /\ checkPc' = "done"
            /\ sent' = NoSent
            /\ authIsLoading' = FALSE
            /\ checkOutcome' = "no token"
            /\ Settle(route, FALSE, user, ops, regBusy)
    /\ UNCHANGED <<impl, token, defaultAuth, user, lastAuth, prevFailure>>

\* A checkAuth that clears the loading flag only after a /users/me call.
CheckAuthStartsStaysLoading ==
    /\ checkPc = "start"
    /\ IF token # NoToken
       THEN /\ checkPc' = "waiting"
            /\ sent' = Request("/users/me", token, defaultAuth)
            /\ UNCHANGED <<authIsLoading, route, ops, regBusy, checkOutcome>>
       ELSE /\ checkPc' = "done"
            /\ sent' = NoSent
            /\ checkOutcome' = "no token"
            /\ UNCHANGED <<authIsLoading, route, ops, regBusy>>
    /\ UNCHANGED <<impl, token, defaultAuth, user, lastAuth, prevFailure>>

\* checkAuth, up to its await or, with no stored token, to its end.
CheckAuthStarts ==
    /\ checkPc = "start"
    /\ IF token # NoToken
       THEN /\ checkPc' = "waiting"
            /\ sent' = Request("/users/me", token, defaultAuth)
            /\ UNCHANGED <<authIsLoading, route, ops, regBusy, checkOutcome>>
       ELSE /\ checkPc' = "done"
            /\ sent' = NoSent
            /\ authIsLoading' = FALSE
            /\ checkOutcome' = "no token"
            /\ Settle(route, FALSE, user, ops, regBusy)
    /\ UNCHANGED <<impl, token, defaultAuth, user, lastAuth, prevFailure>>

\* A checkAuth whose catch block leaves the stored token in place.
CheckAuthReturnsKeepsToken(ok, u) ==
    /\ checkPc = "waiting"
    /\ checkPc' = "done"
    /\ user' = IF ok THEN u ELSE user
    /\ UNCHANGED token
    /\ authIsLoading' = FALSE
    /\ sent' = NoSent
    /\ checkOutcome' = IF ok THEN "accepted" ELSE "rejected"
    /\ Settle(route, FALSE, user', ops, regBusy)
    /\ UNCHANGED <<impl, defaultAuth, lastAuth, prevFailure>>

\* GET /users/me returns: the rest of checkAuth.
CheckAuthReturns(ok, u) ==
    /\ checkPc = "waiting"
    /\ checkPc' = "done"
    /\ user' = IF ok THEN u ELSE user
    /\ token' = IF ok THEN token ELSE NoToken
    /\ authIsLoading' = FALSE
    /\ sent' = NoSent
    /\ checkOutcome' = IF ok THEN "accepted" ELSE "rejected"
    /\ Settle(route, FALSE, user', ops, regBusy)
    /\ UNCHANGED <<impl, defaultAuth, lastAuth, prevFailure>>

\* The Login page calls login(email, password): POST /auth/login(-json).
LoginStarts(a) ==
    /\ route = "/login" /\ Shown(route, authIsLoading, user)
    /\ Free("login")
    /\ ops' = [ops EXCEPT !["login"] = [IdleOp EXCEPT !.kind = "login", !.pc = "login", !.acct = a]]
    /\ sent' = Request("/auth/login", token, defaultAuth)
    /\ UNCHANGED <<impl, token, defaultAuth, user, authIsLoading, route, checkPc,
                   regBusy, lastAuth, prevFailure, checkOutcome>>

\* The Register page's onSubmit calls register(...): POST /auth/register.
RegisterStarts(a) ==
    /\ route = "/register" /\ Shown(route, authIsLoading, user)
    /\ ~regBusy
    /\ Free("register")
    /\ regBusy' = TRUE
    /\ prevFailure' = IF ops["register"].failedStage # None
                      THEN [stage |-> ops["register"].failedStage,
                            result |-> ops["register"].result]
                      ELSE prevFailure
    /\ ops' = [ops EXCEPT !["register"] = [IdleOp EXCEPT !.kind = "register", !.pc = "create",
                                                !.acct = a, !.pageAlive = TRUE]]
    /\ sent' = Request("/auth/register", token, defaultAuth)
    /\ UNCHANGED <<impl, token, defaultAuth, user, authIsLoading, route, checkPc,
                   lastAuth, checkOutcome>>

\* POST /auth/register succeeds: register goes on to call login.
RegisterCreated ==
    /\ ops["register"].pc = "create"
    /\ ops' = [ops EXCEPT !["register"].pc = "login"]
    /\ sent' = Request("/auth/login", token, defaultAuth)
    /\ UNCHANGED <<impl, token, defaultAuth, user, authIsLoading, route, checkPc,
                   regBusy, lastAuth, prevFailure, checkOutcome>>

\* POST /auth/register fails with err: register's (outer) catch block.
RegisterCreateFails(err) ==
    /\ ops["register"].pc = "create"
    /\ LET op == Settled(ops["register"], registerOuterCatch(impl, err).message, "create")
       IN  Settle(route, authIsLoading, user, [ops EXCEPT !["register"] = op], BusyAfter(ops["register"]))
    /\ sent' = NoSent
    /\ UNCHANGED <<impl, token, defaultAuth, user, authIsLoading, checkPc, lastAuth, prevFailure, checkOutcome>>

\* A login that does not write the returned token to localStorage.
LoginSucceedsNoStore(s, t) ==
    /\ ops[s].pc = "login"
    /\ UNCHANGED token
    /\ defaultAuth' = IF impl = "part_000" THEN t ELSE defaultAuth
    /\ user' = ops[s].acct
    /\ lastAuth' = [kind |-> "login", token |-> t]
    /\ sent' = NoSent
    /\ LET op == IF ops[s].kind = "register" /\ impl = "part_000"
                 THEN [ops[s] EXCEPT !.pc = "propagate", !.wait = PropagateDelay]
                 ELSE Settled(ops[s], "resolved", None)
           busy == IF op.pc = "done" THEN BusyAfter(ops[s]) ELSE regBusy
       IN  Settle("/", authIsLoading, user', [ops EXCEPT ![s] = op], busy)
    /\ UNCHANGED <<impl, authIsLoading, checkPc, prevFailure, checkOutcome>>

\* The login call returns {access_token: t, user}: the rest of login's try
\* block, then what the caller (the Login page, or register) does next.
LoginSucceeds(s, t) ==
    /\ ops[s].pc = "login"
    /\ token' = t
    /\ defaultAuth' = IF impl = "part_000" THEN t ELSE defaultAuth
    /\ user' = ops[s].acct
    /\ lastAuth' = [kind |-> "login", token |-> t]
    /\ sent' = NoSent
    /\ LET op == IF ops[s].kind = "register" /\ impl = "part_000"
                 THEN [ops[s] EXCEPT !.pc = "propagate", !.wait = PropagateDelay]
                 ELSE Settled(ops[s], "resolved", None)
           busy == IF op.pc = "done" THEN BusyAfter(ops[s]) ELSE regBusy
       IN  Settle("/", authIsLoading, user', [ops EXCEPT ![s] = op], busy)
    /\ UNCHANGED <<impl, authIsLoading, checkPc, prevFailure, checkOutcome>>

\* A register that starts over when its login fails.
LoginFailsRetriesRegister(s, err) ==
    /\ ops[s].pc = "login"
    /\ ops' = [ops EXCEPT ![s].pc = IF ops[s].kind = "register" THEN "create" ELSE "login"]
    /\ sent' = Request(IF ops[s].kind = "register" THEN "/auth/register" ELSE "/auth/login",
                       token, defaultAuth)
    /\ UNCHANGED <<impl, token, defaultAuth, user, authIsLoading, route, checkPc,
                   regBusy, lastAuth, prevFailure, checkOutcome>>

\* The login call fails with err: login's catch block, then the caller's.
LoginFails(s, err) ==
    /\ ops[s].pc = "login"
    /\ LET thrown == loginCatch(impl, err)
           res == IF ops[s].kind = "register"
                  THEN registerLoginFailed(impl, thrown).message
                  ELSE thrown.message
           op == Settled(ops[s], res, "login")
       IN  Settle(route, authIsLoading, user, [ops EXCEPT ![s] = op], BusyAfter(ops[s]))
    /\ sent' = NoSent
    /\ UNCHANGED <<impl, token, defaultAuth, user, authIsLoading, checkPc, lastAuth, prevFailure, checkOutcome>>

\* createProfile issues POST /users.
PostProfile(op) ==
    [op EXCEPT !.pc = "profile",
               !.profileCalls = @ + 1,
               !.minGap = IF op.profileCalls > 0 THEN Min(@, op.sinceProfile) ELSE @,
               !.sinceProfile = 0]

\* A wait of register is over (the token propagation delay, or the delay
\* before a retry): createProfile is called.
CreateProfile ==
    /\ ops["register"].pc \in {"propagate", "retry"}
    /\ ops["register"].wait = 0
    /\ ops' = [ops EXCEPT !["register"] = PostProfile(ops["register"])]
    /\ sent' = Request("/users", token, defaultAuth)
    /\ UNCHANGED <<impl, token, defaultAuth, user, authIsLoading, route, checkPc,
                   regBusy, lastAuth, prevFailure, checkOutcome>>

\* POST /users succeeds: createProfile returns and register resolves.
ProfileCreated ==
    /\ ops["register"].pc = "profile"
    /\ LET op == Settled([ops["register"] EXCEPT !.profileOk = TRUE], "resolved", None)
       IN  Settle(route, authIsLoading, user, [ops EXCEPT !["register"] = op], BusyAfter(ops["register"]))
    /\ sent' = NoSent
    /\ UNCHANGED <<impl, token, defaultAuth, user, authIsLoading, checkPc, lastAuth, prevFailure, checkOutcome>>

\* POST /users fails: createProfile's catch block.
ProfileFails ==
    /\ ops["register"].pc = "profile"
    /\ LET failed == [ops["register"] EXCEPT !.profileFails = @ + 1]
           op == IF mayRetry(failed.retryCount)
                 THEN [failed EXCEPT !.retryCount = @ + 1, !.pc = "retry", !.wait = retryWait]
                 ELSE Settled(failed, "resolved", "profile")
           busy == IF op.pc = "done" THEN BusyAfter(ops["register"]) ELSE regBusy
       IN  Settle(route, authIsLoading, user, [ops EXCEPT !["register"] = op], busy)
    /\ sent' = NoSent
    /\ UNCHANGED <<impl, token, defaultAuth, user, authIsLoading, checkPc, lastAuth, prevFailure, checkOutcome>>

\* logout() without line 302's delete of the default header.
LogoutKeepsDefault ==
    /\ route \in DashRoutes /\ Shown(route, authIsLoading, user)
    /\ token' = NoToken
    /\ UNCHANGED defaultAuth
    /\ user' = NoUser
    /\ lastAuth' = [kind |-> "logout", token |-> NoToken]
    /\ sent' = NoSent
    /\ Settle("/login", authIsLoading, NoUser, ops, regBusy)
    /\ UNCHANGED <<impl, authIsLoading, checkPc, prevFailure, checkOutcome>>

\* logout() without the removeItem of the stored token.
LogoutKeepsToken ==
    /\ route \in DashRoutes /\ Shown(route, authIsLoading, user)
    /\ UNCHANGED token
    /\ defaultAuth' = IF impl = "part_000" THEN NoToken ELSE defaultAuth
    /\ user' = NoUser
    /\ lastAuth' = [kind |-> "logout", token |-> NoToken]
    /\ sent' = NoSent
    /\ Settle("/login", authIsLoading, NoUser, ops, regBusy)
    /\ UNCHANGED <<impl, authIsLoading, checkPc, prevFailure, checkOutcome>>

\* DashboardLayout's sign-out button calls logout().
Logout ==
    /\ route \in DashRoutes /\ Shown(route, authIsLoading, user)
    /\ token' = NoToken
    /\ defaultAuth' = IF impl = "part_000" THEN NoToken ELSE defaultAuth
    /\ user' = NoUser
    /\ lastAuth' = [kind |-> "logout", token |-> NoToken]
    /\ sent' = NoSent
    /\ Settle("/login", authIsLoading, NoUser, ops, regBusy)
    /\ UNCHANGED <<impl, authIsLoading, checkPc, prevFailure, checkOutcome>>

\* A view of the authenticated area calls the API (api.get('/documents'), ...).
ViewRequest ==
    /\ route \in DashRoutes /\ Shown(route, authIsLoading, user)
    /\ sent' = Request("/documents", token, defaultAuth)
    /\ UNCHANGED <<impl, token, defaultAuth, user, authIsLoading, route, checkPc,
                   ops, regBusy, lastAuth, prevFailure, checkOutcome>>

\* The user moves through the browser's history to another location.
GoTo(r) ==
    /\ r # route
    /\ sent' = NoSent
    /\ Settle(r, authIsLoading, user, ops, regBusy)
    /\ UNCHANGED <<impl, token, defaultAuth, user, authIsLoading, checkPc, lastAuth, prevFailure, checkOutcome>>

\* One second passes for the session store's waits.
AuthTick ==
    /\ \E s \in Slots :
          \/ ops[s].wait > 0
          \/ ops[s].pc \in {"profile", "retry"} /\ ops[s].sinceProfile < RetryDelay
    /\ ops' = [s \in Slots |->
                 [ops[s] EXCEPT !.wait = IF @ > 0 THEN @ - 1 ELSE 0,
                                !.sinceProfile = IF ops[s].pc \in {"profile", "retry"}
                                                 THEN Min(@ + 1, RetryDelay) ELSE @]]
    /\ sent' = NoSent
    /\ UNCHANGED <<impl, token, defaultAuth, user, authIsLoading, route, checkPc,
                   regBusy, lastAuth, prevFailure, checkOutcome>>

\* The page has just loaded: AuthProvider is constructed, its effect has not
\* run; the storage holds what an earlier visit left.
InitAuth ==
    /\ impl \in Impls
    /\ token \in Tokens \cup {NoToken}
    /\ defaultAuth = NoToken
    /\ user = NoUser
    /\ authIsLoading = TRUE
    /\ route \in Routes
    /\ checkPc = "start"
    /\ ops = [s \in Slots |-> IdleOp]
    /\ regBusy = FALSE
    /\ sent = NoSent
    /\ lastAuth = NoAuthEvent
    /\ prevFailure = NoFailure
    /\ checkOutcome = None

NextAuth ==
    \/ CheckAuthStarts /\ UNCHANGED <<reportVars, uploadVars, formVars>>
    \/ \E ok \in BOOLEAN : \E u \in Accounts : CheckAuthReturns(ok, u) /\ UNCHANGED <<reportVars, uploadVars, formVars>>
    \/ \E a \in Accounts : LoginStarts(a) /\ UNCHANGED <<reportVars, uploadVars, formVars>>
    \/ \E a \in Accounts : RegisterStarts(a) /\ UNCHANGED <<reportVars, uploadVars, formVars>>
    \/ RegisterCreated /\ UNCHANGED <<reportVars, uploadVars, formVars>>
    \/ \E err \in AxiosErrors : RegisterCreateFails(err) /\ UNCHANGED <<reportVars, uploadVars, formVars>>
    \/ \E s \in Slots : \E t \in Tokens : LoginSucceeds(s, t) /\ UNCHANGED <<reportVars, uploadVars, formVars>>
    \/ \E s \in Slots : \E err \in AxiosErrors : LoginFails(s, err) /\ UNCHANGED <<reportVars, uploadVars, formVars>>
    \/ CreateProfile /\ UNCHANGED <<reportVars, uploadVars, formVars>>
    \/ ProfileCreated /\ UNCHANGED <<reportVars, uploadVars, formVars>>
    \/ ProfileFails /\ UNCHANGED <<reportVars, uploadVars, formVars>>
    \/ Logout /\ UNCHANGED <<reportVars, uploadVars, formVars>>
    \/ ViewRequest /\ UNCHANGED <<reportVars, uploadVars, formVars>>
    \/ \E r \in Routes : GoTo(r) /\ UNCHANGED <<reportVars, uploadVars, formVars>>
    \/ AuthTick /\ UNCHANGED <<reportVars, uploadVars, formVars>>

-----------------------------------------------------------------------------
(* DocumentUpload.tsx *)

FileNames == {"a.pdf", "b.png", "c.jpg"}

\* The id the remote service assigns to the document made from file f.
ServerId(f) == [doc |-> f]
NoId == [doc |-> None]

\* onDrop's new entry for an accepted file.
NewEntry(f) ==
    [name |-> f, progress |-> 0, status |-> "uploading", id |-> NoId, error |-> None]

\* The sequences of n distinct files of S.
RECURSIVE Picks(_, _)
Picks(S, n) ==
    IF n = 0 THEN {<<>>}
    ELSE UNION { {<<f>> \o p : p \in Picks(S \ {f}, n - 1)} : f \in S }

SetProgress50(f) == [f EXCEPT !.progress = 50]
SetSuccess(f, docId) == [f EXCEPT !.id = docId, !.progress = 100, !.status = "success"]
SetError(f) == [f EXCEPT !.progress = 0, !.status = "error", !.error = "Upload failed"]

\* The three updates handleUpload makes to an entry.
Progress50 == [op |-> "progress", id |-> NoId]
Success(docId) == [op |-> "success", id |-> docId]
Failure == [op |-> "error", id |-> NoId]

Update(f, u) ==
    CASE u.op = "progress" -> SetProgress50(f)
      [] u.op = "success" -> SetSuccess(f, u.id)
      [] OTHER -> SetError(f)

\* prev.map((f, index) => index === files.length + i ? {...f, update} : f), with
\* the closure's files.length = base; positions are 1-based here.
MapAt(prev, base, i, u) ==
    [k \in 1..Len(prev) |-> IF k - 1 = base + i THEN Update(prev[k], u) ELSE prev[k]]

\* prev.filter((_, i) => i !== index), index 0-based.
removeAt(prev, index) ==
    [k \in 1..(Len(prev) - 1) |-> IF k - 1 < index THEN prev[k] ELSE prev[k + 1]]

\* Files not dropped before: every entry of the model stands for its own file.
Fresh == {f \in FileNames : outcome[f] = None /\ \A k \in 1..Len(files) : files[k].name # f}

\* A drop zone that is never disabled.
DropzoneNeverDisabled == FALSE

\* useDropzone's disabled option.
DropzoneDisabled == isUploading

\* The drop zone accepts the files fs: onDrop appends their entries and calls
\* handleUpload, which runs to its first await.
Drop(fs) ==
    /\ upRoute = "/documents/upload"
    /\ ~DropzoneDisabled
    /\ Len(fs) >= 1
    /\ LET appended == files \o [k \in 1..Len(fs) |-> NewEntry(fs[k])]
       IN  files' = MapAt(appended, Len(files), 0, Progress50)
    /\ isUploading' = TRUE
    /\ acceptedFiles' = fs
    /\ upI' = 0
    /\ upBase' = Len(files)
    /\ upPc' = "awaiting"
    /\ upIssued' = fs[1]
    /\ UNCHANGED <<upRoute, outcome>>

\* api.post('/documents/upload') returns for acceptedFiles[i]: the rest of the
\* loop body, then the next iteration up to its await, or the loop's end.
UploadReturns(ok) ==
    /\ upPc = "awaiting"
    /\ LET f == acceptedFiles[upI + 1]
           done == IF ok THEN Success(ServerId(f)) ELSE Failure
           files1 == MapAt(files, upBase, upI, done)
           more == upI + 1 < Len(acceptedFiles)
       IN  /\ outcome' = [outcome EXCEPT ![f] = IF ok THEN "ok" ELSE "failed"]
           /\ upI' = upI + 1
           /\ IF more
              THEN /\ files' = MapAt(files1, upBase, upI + 1, Progress50)
                   /\ upIssued' = acceptedFiles[upI + 2]
                   /\ UNCHANGED <<isUploading, upPc>>
              ELSE /\ files' = files1
                   /\ upIssued' = None
                   /\ isUploading' = FALSE
                   /\ upPc' = "idle"
    /\ UNCHANGED <<acceptedFiles, upBase, upRoute>>

\* The user clicks the X of the entry at index (0-based); the button is
\* rendered only for an entry that is not uploading.
removeFile(index) ==
    /\ upRoute = "/documents/upload"
    /\ index + 1 \in 1..Len(files)
    /\ files[index + 1].status # "uploading"
    /\ files' = removeAt(files, index)
    /\ upIssued' = None
    /\ UNCHANGED <<isUploading, upPc, acceptedFiles, upI, upBase, upRoute, outcome>>

\* A Done button disabled only while uploading.
DoneDisabledWhileUploading == isUploading

\* The Done button's disabled attribute.
DoneDisabled == isUploading \/ ~\E k \in 1..Len(files) : files[k].status = "success"

\* The user clicks Done: finishUpload().
finishUpload ==
    /\ upRoute = "/documents/upload"
    /\ Len(files) > 0
    /\ ~DoneDisabled
    /\ LET hasSuccessfulUploads == \E k \in 1..Len(files) : files[k].status = "success"
       IN  upRoute' = IF hasSuccessfulUploads THEN "/documents" ELSE upRoute
    /\ upIssued' = None
    /\ UNCHANGED <<files, isUploading, upPc, acceptedFiles, upI, upBase, outcome>>

\* The upload view has just been mounted.
InitUpload ==
    /\ files = <<>>
    /\ isUploading = FALSE
    /\ upPc = "idle"
    /\ acceptedFiles = <<>>
    /\ upI = 0
    /\ upBase = 0
    /\ upRoute = "/documents/upload"
    /\ outcome = [f \in FileNames |-> None]
    /\ upIssued = None

NextUpload ==
    \/ \E n \in 1..MaxDrop : \E fs \in Picks(Fresh, n) : Drop(fs) /\ UNCHANGED <<reportVars, authVars, formVars>>
    \/ \E ok \in BOOLEAN : UploadReturns(ok) /\ UNCHANGED <<reportVars, authVars, formVars>>
    \/ \E index \in 0..(Len(files) - 1) : removeFile(index) /\ UNCHANGED <<reportVars, authVars, formVars>>
    \/ finishUpload /\ UNCHANGED <<reportVars, authVars, formVars>>

-----------------------------------------------------------------------------
(* ReportCreate (part_002) and UserProfile.tsx *)

Documents == {"d1", "d2", "d3"}

Range(q) == {q[k] : k \in 1..Len(q)}

\* prev.filter((id) => id !== documentId)
Without(q, d) == SelectSeq(q, LAMBDA x : x # d)

\* A toggle that always appends.
toggleAlwaysAppends(prev, documentId) == Append(prev, documentId)

\* The updater of toggleDocumentSelection.
toggle(prev, documentId) ==
    IF documentId \in Range(prev) THEN Without(prev, documentId)
    ELSE Append(prev, documentId)

\* The user clicks a document's checkbox.
toggleDocumentSelection(documentId) ==
    /\ genRoute = "/reports/create"
    /\ selectedDocuments' = toggle(selectedDocuments, documentId)
    /\ genToast' = None
    /\ genSent' = None
    /\ formEvent' = None
    /\ UNCHANGED <<isGenerating, genPc, genRoute, profIsLoading, profPc, profRoute, profToast>>

\* The Generate button's disabled attribute.
GenerateDisabled == Len(selectedDocuments) = 0 \/ isGenerating

\* The user clicks Generate: handleGenerateReport up to its await.
handleGenerateReport ==
    /\ genRoute = "/reports/create"
    /\ ~GenerateDisabled
    /\ IF Len(selectedDocuments) = 0
       THEN /\ genToast' = "No documents selected"
            /\ genSent' = None
            /\ UNCHANGED <<isGenerating, genPc>>
       ELSE /\ isGenerating' = TRUE
            /\ genPc' = "awaiting"
            /\ genSent' = selectedDocuments
            /\ genToast' = None
    /\ formEvent' = None
    /\ UNCHANGED <<selectedDocuments, genRoute, profIsLoading, profPc, profRoute, profToast>>

\* POST /reports/generate returns: the rest of handleGenerateReport. After a
\* navigate the view is unmounted and its state is gone.
GenerateReturns(ok) ==
    /\ genPc = "awaiting"
    /\ genPc' = "idle"
    /\ isGenerating' = FALSE
    /\ genToast' = IF ok THEN "Report generation started" ELSE "Report generation failed"
    /\ genRoute' = IF ok THEN "/reports/:id" ELSE genRoute
    /\ selectedDocuments' = IF ok THEN <<>> ELSE selectedDocuments
    /\ genSent' = None
    /\ formEvent' = IF ok THEN "generate ok" ELSE "generate failed"
    /\ UNCHANGED <<profIsLoading, profPc, profRoute, profToast>>

\* The user opens the report creation page again: a new view instance.
OpenReportCreate ==
    /\ genRoute # "/reports/create"
    /\ genRoute' = "/reports/create"
    /\ selectedDocuments' = <<>>
    /\ genToast' = None
    /\ genSent' = None
    /\ formEvent' = None
    /\ UNCHANGED <<isGenerating, genPc, profIsLoading, profPc, profRoute, profToast>>

\* The user submits the profile form: UserProfile.onSubmit up to its await.
ProfileSubmit ==
    /\ profRoute = "/profile"
    /\ ~profIsLoading
    /\ profIsLoading' = TRUE
    /\ profPc' = "awaiting"
    /\ profToast' = None
    /\ formEvent' = None
    /\ UNCHANGED <<selectedDocuments, isGenerating, genPc, genRoute, genToast, genSent, profRoute>>

\* PUT /users/me returns: the rest of UserProfile.onSubmit.
ProfileSubmitReturns(ok) ==
    /\ profPc = "awaiting"
    /\ profPc' = "idle"
    /\ profIsLoading' = FALSE
    /\ profToast' = IF ok THEN "Profile updated" ELSE "Update failed"
    /\ formEvent' = IF ok THEN "update ok" ELSE "update failed"
    /\ UNCHANGED <<selectedDocuments, isGenerating, genPc, genRoute, genToast, genSent, profRoute>>

\* The two views have just been mounted.
InitForms ==
    /\ selectedDocuments = <<>>
    /\ isGenerating = FALSE
    /\ genPc = "idle"
    /\ genRoute = "/reports/create"
    /\ genToast = None
    /\ profIsLoading = FALSE
    /\ profPc = "idle"
    /\ profRoute = "/profile"
    /\ profToast = None
    /\ genSent = None
    /\ formEvent = None

\* The Register page is shown to a visitor who is not signed in.
InitRegisterPage ==
    /\ impl \in Impls
    /\ token = NoToken
    /\ defaultAuth = NoToken
    /\ user = NoUser
    /\ authIsLoading = FALSE
    /\ route = "/register"
    /\ checkPc = "done"
    /\ ops = [s \in Slots |-> IdleOp]
    /\ regBusy = FALSE
    /\ sent = NoSent
    /\ lastAuth = NoAuthEvent
    /\ prevFailure = NoFailure
    /\ checkOutcome = "no token"

\* The forms of the application: report creation, profile update, registration.
NextForms ==
    \/ \E d \in Documents : toggleDocumentSelection(d) /\ UNCHANGED <<reportVars, authVars, uploadVars>>
    \/ handleGenerateReport /\ UNCHANGED <<reportVars, authVars, uploadVars>>
    \/ \E ok \in BOOLEAN : GenerateReturns(ok) /\ UNCHANGED <<reportVars, authVars, uploadVars>>
    \/ OpenReportCreate /\ UNCHANGED <<reportVars, authVars, uploadVars>>
    \/ ProfileSubmit /\ UNCHANGED <<reportVars, authVars, uploadVars>>
    \/ \E ok \in BOOLEAN : ProfileSubmitReturns(ok) /\ UNCHANGED <<reportVars, authVars, uploadVars>>
    \/ \E a \in Accounts : RegisterStarts(a) /\ UNCHANGED <<reportVars, uploadVars, formVars>>
    \/ RegisterCreated /\ UNCHANGED <<reportVars, uploadVars, formVars>>
    \/ \E err \in AxiosErrors : RegisterCreateFails(err) /\ UNCHANGED <<reportVars, uploadVars, formVars>>
    \/ \E t \in Tokens : LoginSucceeds("register", t) /\ UNCHANGED <<reportVars, uploadVars, formVars>>
    \/ \E err \in AxiosErrors : LoginFails("register", err) /\ UNCHANGED <<reportVars, uploadVars, formVars>>
    \/ CreateProfile /\ UNCHANGED <<reportVars, uploadVars, formVars>>
    \/ ProfileCreated /\ UNCHANGED <<reportVars, uploadVars, formVars>>
    \/ ProfileFails /\ UNCHANGED <<reportVars, uploadVars, formVars>>
    \/ AuthTick /\ UNCHANGED <<reportVars, uploadVars, formVars>>

-----------------------------------------------------------------------------
(* Specifications *)

\* The session store at rest, for the specifications of the other views.
RestAuth ==
    /\ impl = "AuthContext"
    /\ token = NoToken
    /\ defaultAuth = NoToken
    /\ user = NoUser
    /\ authIsLoading = FALSE
    /\ route = "/"
    /\ checkPc = "done"
    /\ ops = [s \in Slots |-> IdleOp]
    /\ regBusy = FALSE
    /\ sent = NoSent
    /\ lastAuth = NoAuthEvent
    /\ prevFailure = NoFailure
    /\ checkOutcome = "no token"

\* The report view at rest, for the specifications of the other views.
RestReport ==
    /\ mounted = FALSE
    /\ id = "R1"
    /\ report = NoReport
    /\ isLoading = TRUE
    /\ error = NoError
    /\ pollingInterval = NoTimer
    /\ timers = {}
    /\ nextTimer = 1
    /\ fetches = EmptyBag
    /\ srvStatus = [r \in ReportIds |-> "completed"]
    /\ terminalSeen = [r \in ReportIds |-> FALSE]
    /\ procAge = [r \in ReportIds |-> PollInterval]
    /\ issued = NoIssue

InitSpecReport == InitReport /\ RestAuth /\ InitUpload /\ InitForms
SpecReport == InitSpecReport /\ [][NextReport]_vars

InitSpecAuth == InitAuth /\ RestReport /\ InitUpload /\ InitForms
SpecAuth == InitSpecAuth /\ [][NextAuth]_vars

InitSpecUpload == InitUpload /\ RestReport /\ RestAuth /\ InitForms
SpecUpload == InitSpecUpload /\ [][NextUpload]_vars

InitSpecForms == InitForms /\ InitRegisterPage /\ RestReport /\ InitUpload
SpecForms == InitSpecForms /\ [][NextForms]_vars

\* The report view stays mounted on its report id: no id change, no unmount.
NextReportStay ==
    \/ \E f \in BagToSet(fetches) : \E ok \in BOOLEAN : FetchReportReturns(f, ok) /\ UNCHANGED <<authVars, uploadVars, formVars>>
    \/ \E t \in timers : TimerFires(t) /\ UNCHANGED <<authVars, uploadVars, formVars>>
    \/ \E rid \in ReportIds : ServerCompletes(rid) /\ UNCHANGED <<authVars, uploadVars, formVars>>
    \/ Tick /\ UNCHANGED <<authVars, uploadVars, formVars>>

\* Every fetch receives a response, and a successful one if it waits for it.
FetchSucceeds ==
    /\ \E f \in BagToSet(fetches) : FetchReportReturns(f, TRUE)
    /\ UNCHANGED <<authVars, uploadVars, formVars>>

\* The browser runs the callbacks of due timers.
TimerStep ==
    /\ \E t \in timers : TimerFires(t)
    /\ UNCHANGED <<authVars, uploadVars, formVars>>

\* Time passes.
TickStep == Tick /\ UNCHANGED <<authVars, uploadVars, formVars>>

\* The remote service finishes every report.
ServerStep ==
    /\ \E rid \in ReportIds : ServerCompletes(rid)
    /\ UNCHANGED <<authVars, uploadVars, formVars>>

SpecReportLive ==
    /\ InitSpecReport /\ [][NextReportStay]_vars
    /\ WF_vars(FetchSucceeds) /\ WF_vars(TimerStep)
    /\ WF_vars(TickStep) /\ WF_vars(ServerStep)

\* AuthProvider's mount effect runs checkAuth, and its GET /users/me settles
\* (the browser resolves or rejects every request).
CheckAuthStep ==
    /\ \/ CheckAuthStarts
       \/ \E ok \in BOOLEAN : \E u \in Accounts : CheckAuthReturns(ok, u)
    /\ UNCHANGED <<reportVars, uploadVars, formVars>>

SpecAuthLive == SpecAuth /\ WF_vars(CheckAuthStep)

-----------------------------------------------------------------------------
(* Claims about the report view *)

\* C1: once a fetch for report id R has returned completed, or failed, the
\* view issues no further fetch for R.
C1_NoFetchAfterTerminal ==
    issued.id \in ReportIds => ~terminalSeen[issued.id]

\* C2: after the view is unmounted while polling was active, no fetch is
\* issued and no polling timer remains active.
C2_NoActivityAfterUnmount ==
    (~mounted /\ pollingInterval # NoTimer) =>
        (timers = {} /\ issued = NoIssue)

\* C3: after a fetch for R returned processing, the next fetch for R is
\* issued no sooner than PollInterval after that fetch was issued.
C3_NextFetchAfterDelay ==
    issued.id \in ReportIds => issued.gap >= PollInterval

\* C19: when the view shows report id with fetched status processing, no
\* fetch for id having returned another status or failed, and no fetch for id
\* is in flight, a repeating fetch for id is active; this also for an id the
\* mounted view changed to.
C19_PollingForShownId ==
    (/\ mounted
     /\ report = [id |-> id, status |-> "processing"]
     /\ srvStatus[id] = "processing"
     /\ ~terminalSeen[id]
     /\ \A f \in BagToSet(fetches) : f.id # id) =>
        \E t \in timers : t.id = id

\* C22: once a fetch has failed the view renders its error state, and no
\* later fetch result, for the same or another report id, brings it back to
\* showing a report.
C22_ErrorIsTerminal ==
    /\ [](error # NoError => ReportViewRenders = "error")
    /\ [][error # NoError => error' = error]_vars

C22_Witness ==
    /\ mounted /\ error # NoError
    /\ report = [id |-> id, status |-> "completed"]

\* C28: if the view stays mounted on R, every fetch receives a successful
\* response and the server completes R, then the view eventually holds R's
\* record with status completed.
C28_EventuallyCompleted ==
    \A r \in ReportIds :
        <>(\/ ~(mounted /\ id = r /\ error = NoError)
           \/ report = [id |-> r, status |-> "completed"])

C28_Witness ==
    /\ mounted /\ error = NoError
    /\ report = [id |-> id, status |-> "completed"]
    /\ nextTimer > 1

\* C29: a fetch response changes the record the mounted view holds only to a
\* record of the report id the view currently shows.
C29_RecordBelongsToId ==
    [][(mounted /\ report' # report) => report'.id = id']_vars

-----------------------------------------------------------------------------
(* Claims about the session store *)

\* C4: after logout, no API request carries an Authorization credential until
\* a later successful login response is processed, requests of operations
\* already running (register's profile creation) included.
C4_NoCredentialAfterLogout ==
    (lastAuth.kind = "logout" /\ sent # NoSent) => sent.auth = NoToken

C4_Witness ==
    /\ lastAuth.kind = "logout"
    /\ sent.path = "/users"
    /\ \E s \in Slots : ops[s].kind = "register" /\ ops[s].pc = "profile"

\* C5: after login completed with access token T, every API request issued
\* before the next logout or successful login carries Authorization: Bearer T.
C5_BearerAfterLogin ==
    (lastAuth.kind = "login" /\ sent # NoSent) => sent.auth = lastAuth.token

C5_Witness ==
    /\ lastAuth.kind = "login"
    /\ sent.path \in {"/documents", "/users"}
    /\ sent.auth = lastAuth.token

\* C6: a register whose account creation succeeded and whose login failed
\* rejects with the 'Account created but login failed' error.
C6_AccountCreatedLoginFailed ==
    \A s \in Slots :
        (impl = "part_000" /\ ops[s].kind = "register" /\ ops[s].failedStage = "login") =>
            ops[s].result = MsgAccountCreated

\* C7: a register that failed at account creation, at sign-in or at profile
\* creation ends in an error, and the errors of different stages differ.
C7_DistinctStageErrors ==
    LET op == ops["register"]
    IN  (impl = "part_000" /\ op.failedStage # None) =>
            /\ op.result # "resolved"
            /\ (prevFailure.stage # None /\ prevFailure.stage # op.failedStage) =>
                  prevFailure.result # op.result

\* C8: a register whose profile creation failed twice and then succeeded
\* resolves, having issued exactly three POST /users calls, each retry no
\* sooner than two seconds after the attempt before it.
C8_ThirdAttemptSucceeds ==
    \A s \in Slots :
        (ops[s].profileOk /\ ops[s].profileFails = 2) =>
            /\ ops[s].result = "resolved"
            /\ ops[s].profileCalls = 3
            /\ ops[s].minGap >= 2

C8_Witness ==
    \E s \in Slots : ops[s].profileOk /\ ops[s].profileFails = 2 /\ ops[s].pc = "done"

\* C11: a session restore whose stored credential the server rejects ends
\* with no identity, no stored credential and the loading flag false.
C11_RejectedRestore ==
    [][(checkPc = "waiting" /\ checkOutcome' = "rejected") =>
          (user' = NoUser /\ token' = NoToken /\ ~authIsLoading')]_vars

C11_Witness ==
    /\ checkOutcome = "rejected"
    /\ lastAuth = NoAuthEvent
    /\ user = NoUser /\ token = NoToken /\ ~authIsLoading

\* C12: whatever the outcome of the session restore, the loading flag is
\* eventually false, and once false it never becomes true again.
C12_LoadingCleared ==
    /\ <>(~authIsLoading)
    /\ [][~authIsLoading => ~authIsLoading']_vars

C12_Witness ==
    /\ checkOutcome = "accepted"
    /\ ~authIsLoading
    /\ lastAuth.kind = "logout"

\* C13: the credential a request carries is the stored token at the moment
\* the request is issued (none when the storage is empty), and the copy kept
\* in the API client's default header, when there is one, equals the stored token.
C13_StorageIsTheCredential ==
    /\ sent # NoSent => sent.auth = token
    /\ defaultAuth # NoToken => defaultAuth = token

C13_Witness ==
    /\ impl = "part_000"
    /\ sent.path = "/users"
    /\ token # NoToken /\ defaultAuth = token /\ sent.auth = token

\* The messages of an 'invalid credentials' error: the client's own, or the
\* message of the server's response to the failed login.
InvalidCredentials ==
    {MsgInvalid} \cup ({e.data_message : e \in AxiosErrors} \ {None})

C15_SuccessfulLogin ==
    [][\A s \in Slots :
          (/\ ops[s].pc = "login"
           /\ ops'[s].pc \in {"propagate", "done"}
           /\ ops'[s].failedStage = None) =>
              /\ lastAuth'.kind = "login"
              /\ token' = lastAuth'.token
              /\ user' = ops[s].acct
              /\ route' = "/"]_vars

C15_Witness ==
    /\ ops["login"].pc = "done" /\ ops["login"].result = "resolved"
    /\ lastAuth.kind = "login" /\ token = lastAuth.token
    /\ user = ops["login"].acct /\ route = "/"

\* C16: the authenticated flag is true exactly when an identity is present.
C16_AuthenticatedIffIdentity ==
    isAuthenticated <=> user \in Accounts

C16_Witness ==
    /\ token # NoToken /\ checkPc = "waiting"
    /\ user = NoUser /\ ~isAuthenticated

\* C17: logout removes the stored credential, clears the authorization
\* header and the identity, sets the route to the login route, and issues no
\* request.
C17_LogoutLocal ==
    [][(lastAuth.kind # "logout" /\ lastAuth'.kind = "logout") =>
          /\ token' = NoToken /\ defaultAuth' = NoToken
          /\ user' = NoUser /\ route' = "/login"
          /\ sent' = NoSent]_vars

C17_Witness ==
    /\ lastAuth.kind = "logout"
    /\ token = NoToken /\ user = NoUser /\ route = "/login"
    /\ ops["register"].pc \in {"propagate", "retry", "profile"}

\* C18: while loading both gates render a placeholder and neither redirects;
\* once loaded the authenticated-area gate renders its content iff an identity
\* is present and otherwise redirects to login, the public-auth-area gate
\* renders its content iff no identity is present and otherwise redirects to
\* the home route; the location has followed the redirects.
C18_Gates ==
    LET d == DashboardLayout(authIsLoading, isAuthenticated)
        a == AuthLayout(authIsLoading, isAuthenticated)
    IN  /\ authIsLoading => (d = "placeholder" /\ a = "placeholder")
        /\ ~authIsLoading =>
              /\ d = (IF user # NoUser THEN "content" ELSE "redirect")
              /\ a = (IF user = NoUser THEN "content" ELSE "redirect")
        /\ \A r \in DashRoutes :
              Gate(r, authIsLoading, user) =
                  IF ~authIsLoading /\ user = NoUser THEN "/login" ELSE r
        /\ \A r \in AuthRoutes :
              Gate(r, authIsLoading, user) =
                  IF ~authIsLoading /\ user # NoUser THEN "/" ELSE r
        /\ route = Gate(route, authIsLoading, user)

C18_Witness ==
    /\ ~authIsLoading /\ checkOutcome = "rejected"
    /\ isAuthenticated /\ route \in DashRoutes

\* C21: within one register call POST /auth/register is issued once, at the
\* call's start; register's login is issued once, when the account creation
\* has succeeded; POST /users is issued only when the login has succeeded
\* (first attempt) or an attempt has failed (retry); no failure makes the
\* account creation or the login be issued again.
C21_RegisterStepOrder ==
    [][LET o == ops["register"]
           n == ops'["register"]
       IN  /\ sent'.path = "/auth/register" =>
                 (o.pc \in {"idle", "done"} /\ n.pc = "create")
           /\ (n.pc = "create" /\ o.pc # "create") => sent'.path = "/auth/register"
           /\ (n.pc = "login" /\ o.pc # "login") =>
                 (o.pc = "create" /\ sent'.path = "/auth/login")
           /\ (sent'.path = "/auth/login" /\ n.pc = o.pc) =>
                 (ops["login"].pc # "login" /\ ops'["login"].pc = "login")
           /\ (n.pc = "propagate" /\ o.pc # "propagate") =>
                 (o.pc = "login" /\ lastAuth'.kind = "login")
           /\ sent'.path = "/users" =>
                 (o.pc \in {"propagate", "retry"} /\ n.pc = "profile")
           /\ (n.pc = "retry" /\ o.pc # "retry") => o.pc = "profile"
           /\ (o.pc \in {"propagate", "retry", "profile"} /\ n.pc # o.pc) =>
                 n.pc \in {"profile", "retry", "done"}]_vars

C21_Witness ==
    /\ ops["register"].pc = "done"
    /\ ops["register"].profileFails = 1 /\ ops["register"].profileOk
    /\ ops["register"].profileCalls = 2

\* C26: register never issues more than maxRetries + 1 POST /users calls; when
\* every attempt has failed it has issued exactly that many, each retry no
\* sooner than two seconds after the attempt before it, and it resolves
\* without touching the session: still logged in unless the user logged out.
C26_AllProfileAttemptsFail ==
    /\ [](LET op == ops["register"]
          IN  /\ op.profileCalls <= maxRetries + 1
              /\ (op.pc = "done" /\ op.failedStage = "profile") =>
                    /\ op.profileCalls = 4 /\ op.profileFails = 4
                    /\ op.minGap >= 2
                    /\ op.result = "resolved"
                    /\ lastAuth.kind = "login" => (user # NoUser /\ token # NoToken))
    /\ [][(ops["register"].pc = "profile" /\ ops'["register"].pc = "done") =>
              (user' = user /\ token' = token /\ defaultAuth' = defaultAuth)]_vars

C26_Witness ==
    /\ ops["register"].pc = "done" /\ ops["register"].failedStage = "profile"
    /\ ops["register"].profileCalls = 4
    /\ ops["register"].result = "resolved"
    /\ user # NoUser

\* C27: an identity is present only if a credential is present in the storage.
C27_IdentityNeedsCredential ==
    user # NoUser => token # NoToken

C27_Witness ==
    /\ user # NoUser /\ token # NoToken
    /\ lastAuth.kind = "login" /\ checkOutcome = "rejected"
    /\ \E s \in Slots : ops[s].pc = "login"

\* C30: when the stored credential is accepted at startup there is, until the
\* user logs out, no state with the loading flag false and the identity
\* absent, and the authenticated-area gate does not redirect.
C30_NoRedirectDuringRestore ==
    (checkOutcome \in {None, "accepted"} /\ lastAuth.kind # "logout") =>
        /\ authIsLoading \/ user # NoUser
        /\ DashboardLayout(authIsLoading, isAuthenticated) # "redirect"

C30_Witness ==
    /\ checkOutcome = "accepted" /\ lastAuth = NoAuthEvent
    /\ ~authIsLoading /\ user # NoUser /\ route \in DashRoutes

-----------------------------------------------------------------------------
(* Claims about the upload view *)

Resolved(e) == e.status \in {"success", "error"}

\* C9: when the upload call of a file of an invocation is issued, the entry
\* of every file before it in that invocation has resolved to success or error.
C9_EntryResolvedBeforeNextCall ==
    upIssued # None =>
        \A j \in 1..upI : \A k \in 1..Len(files) :
            files[k].name = acceptedFiles[j] => Resolved(files[k])

\* C10: once a file's upload call has resolved, the file's own entry is
\* success with the id the server returned for it, or error with the generic
\* message; once the handler has finished no entry is still uploading.
C10_OwnEntryResolved ==
    /\ \A k \in 1..Len(files) :
          LET e == files[k]
          IN  /\ outcome[e.name] = "ok" =>
                    (e.status = "success" /\ e.id = ServerId(e.name))
              /\ outcome[e.name] = "failed" =>
                    (e.status = "error" /\ e.error = "Upload failed")
    /\ upPc = "idle" => \A k \in 1..Len(files) : files[k].status # "uploading"

HasSuccess == \E k \in 1..Len(files) : files[k].status = "success"

\* C20: the finish action is enabled only when an entry has status success,
\* and the view navigates to the document list only then; with no success
\* entry no navigation happens.
C20_FinishNeedsSuccess ==
    /\ []((Len(files) > 0 /\ ~DoneDisabled) => HasSuccess)
    /\ [][upRoute' # upRoute => (HasSuccess /\ upRoute' = "/documents")]_vars

C20_Witness ==
    /\ upRoute = "/documents"
    /\ HasSuccess
    /\ \E k \in 1..Len(files) : files[k].status = "error"

NoDup(q) == \A j, k \in 1..Len(q) : q[j] = q[k] => j = k

\* C23: when a register call settles with a failure the location is kept, the
\* toast "Registration failed" is raised and the page's busy flag is false;
\* when POST /reports/generate fails the view stays on /reports/create, the
\* toast "Report generation failed" is raised and isGenerating is false, so
\* Generate is enabled for a non-empty selection; when PUT /users/me fails the
\* view stays on /profile, the toast "Update failed" is raised and isLoading
\* is false.
C23_FailureKeepsScreen ==
    /\ [](LET op == ops["register"]
          IN  (op.kind = "register" /\ op.pc = "done" /\ op.result # "resolved"
                  /\ op.pageAlive) =>
                 (route = "/register" /\ op.toast = "Registration failed" /\ ~regBusy))
    /\ [][(ops["register"].pc # "done" /\ ops'["register"].pc = "done"
             /\ ops'["register"].result # "resolved") => route' = route]_vars
    /\ [](formEvent = "generate failed" =>
             /\ genRoute = "/reports/create"
             /\ genToast = "Report generation failed"
             /\ ~isGenerating
             /\ (Len(selectedDocuments) > 0 => ~GenerateDisabled))
    /\ [](formEvent = "update failed" =>
             (profRoute = "/profile" /\ profToast = "Update failed" /\ ~profIsLoading))

C23_Witness ==
    /\ ops["register"].pc = "done" /\ ops["register"].result # "resolved"
    /\ ops["register"].failedStage = "login" /\ ops["register"].pageAlive
    /\ genToast = "Report generation failed" /\ genRoute = "/reports/create"
    /\ formEvent = "update failed"

\* C24: POST /reports/generate carries a non-empty, duplicate-free list equal
\* to the selection; from an empty selection no request is issued; the
\* selection never holds a document id twice; toggling a document twice gives
\* a selection of the same document ids, possibly in another order.
C24_GenerateSendsSelection ==
    /\ [](genSent # None =>
             (Len(genSent) >= 1 /\ NoDup(genSent) /\ genSent = selectedDocuments))
    /\ [][Len(selectedDocuments) = 0 => genSent' = None]_vars
    /\ [](NoDup(selectedDocuments))
    /\ [](\A d \in Documents :
             LET twice == toggle(toggle(selectedDocuments, d), d)
             IN  Range(twice) = Range(selectedDocuments) /\ NoDup(twice))

C24_Witness ==
    /\ genSent # None
    /\ Len(genSent) = 2
    /\ genSent[1] = "d2"

\* C24 as stated: toggling a document twice gives the selection back as it was.
C24_TwiceRestoresList ==
    \A d \in Documents : toggle(toggle(selectedDocuments, d), d) = selectedDocuments

====
